---- MODULE Spec2Model ----
(***************************************************************************)
(* A model of qutip's NonMarkovianMCSolver (qutip/solver/nm_mcsolve.py):    *)
(* the rate shift, the paired collapse operators, the continuous and the    *)
(* discrete part of the martingale, and the start / step / run /            *)
(* _run_one_traj lifecycle built on the Monte-Carlo engine.                 *)
(*                                                                         *)
(* Numbers.  Rates, the scale factor a and the discrete martingale are      *)
(* exact rationals <<n, d>> (d > 0, lowest terms).  A martingale value is   *)
(* a number q * e^x, kept as [q |-> rational, x |-> rational], so that      *)
(* np.exp and the products of the code are computed, not assumed.           *)
(* Times are integers 0 .. MaxT.  A rate function is a step function:       *)
(* constant on every [k, k+1), so that scipy.integrate.quad over [t0, t]    *)
(* is the sum of the integrand at t0, t0+1, ..., t-1.                       *)
(* Operators are diagonal matrices diag(sqrt(r_1), sqrt(r_2)) kept as the   *)
(* sequence of radicands <<r_1, r_2>>.                                      *)
(***************************************************************************)
EXTENDS Integers, Sequences, FiniteSets, TLC

\* ------------------------------------------------------------ bounds
\* Times are 0 .. MaxT.
MaxT == 2
\* The engine records at most MaxJumps collapses in one trajectory.
MaxJumps == 1
\* A collapse list handed to _discrete_martingale has at most MaxEvents events.
MaxEvents == 2
Time == 0 .. MaxT

\* ------------------------------------------------------------ evaluation
\* The element of a singleton set.  An operator that uses an argument or an
\* intermediate value several times binds it first, as in
\*     The({ f(v, v) : v \in {e} }),
\* so that e is evaluated once.
The(S) == CHOOSE y \in S : TRUE

\* ------------------------------------------------------------ rationals
IntAbs(n) == IF n < 0 THEN -n ELSE n

RECURSIVE GCD(_, _)
GCD(m, n) == IF n = 0 THEN m ELSE GCD(n, m % n)

\* The rational n/d (d # 0) in lowest terms with a positive denominator.
Rat(n, d) ==
    The({ The({ <<(s * nn) \div g, (s * dd) \div g>> :
                g \in {GCD(IntAbs(nn), IntAbs(dd))},
                s \in {IF dd < 0 THEN -1 ELSE 1} }) :
          nn \in {n}, dd \in {d} })

R(n) == <<n, 1>>
RAdd(x, y) ==
    The({ Rat(a[1] * b[2] + b[1] * a[2], a[2] * b[2]) : a \in {x}, b \in {y} })
RNeg(x) == The({ <<-a[1], a[2]>> : a \in {x} })
RMul(x, y) == The({ Rat(a[1] * b[1], a[2] * b[2]) : a \in {x}, b \in {y} })
RDiv(x, y) == The({ Rat(a[1] * b[2], a[2] * b[1]) : a \in {x}, b \in {y} })
RLess(x, y) == \E a \in {x}, b \in {y} : a[1] * b[2] < b[1] * a[2]
RLeq(x, y) == \E a \in {x}, b \in {y} : a[1] * b[2] <= b[1] * a[2]
\* Python's min(x, y): the first argument unless the second is smaller.
RMin(x, y) == The({ IF RLess(b, a) THEN b ELSE a : a \in {x}, b \in {y} })
RMax(x, y) == The({ IF RLess(a, b) THEN b ELSE a : a \in {x}, b \in {y} })
\* Python's abs.
RAbs(x) == The({ <<IntAbs(a[1]), a[2]>> : a \in {x} })

\* ------------------------------------------------------------ q * e^x
\* The number q * e^x; zero has the one representation [q |-> 0, x |-> 0].
ENum(q, x) ==
    The({ IF qq[1] = 0 THEN [q |-> R(0), x |-> R(0)] ELSE [q |-> qq, x |-> x] :
          qq \in {q} })
\* The int 1 the code stores at the start time.
EOne == ENum(R(1), R(0))
EOfRat(q) == ENum(q, R(0))
\* np.exp(x)
NpExp(x) == ENum(R(1), x)
\* u * v
EMul(u, v) ==
    The({ ENum(RMul(a.q, b.q), RAdd(a.x, b.x)) : a \in {u}, b \in {v} })

\* ------------------------------------------------------------ operators
\* One diagonal entry of an operator: the real number +-sqrt(sq).
Entry(neg, sq) == [neg |-> neg, sq |-> sq]
\* Operators are sequences of diagonal entries; a plain diagonal matrix (a
\* product L.dag() * L, a sum of them, a * qeye) is a sequence of rationals.
SigmaZ == <<Entry(FALSE, R(1)), Entry(TRUE, R(1))>>
Proj1 == <<Entry(FALSE, R(0)), Entry(FALSE, R(1))>>
Lopsided == <<Entry(FALSE, R(4)), Entry(TRUE, R(1))>>
Operators == {SigmaZ, Proj1, Lopsided}

\* L.dag() * L of a diagonal L: conj(e) * e of every entry.
DagMul(L) == [i \in DOMAIN L |-> L[i].sq]
MatAdd(A, B) == [i \in DOMAIN A |-> RAdd(A[i], B[i])]
MatSub(A, B) == [i \in DOMAIN A |-> RAdd(A[i], RNeg(B[i]))]
MatScale(c, A) == [i \in DOMAIN A |-> RMul(c, A[i])]
\* qeye(dims): the identity
Qeye(n) == [i \in 1 .. n |-> R(1)]
RECURSIVE SeqSum(_)
SeqSum(s) ==
    The({ IF v = <<>> THEN R(0) ELSE RAdd(v[1], SeqSum(Tail(v))) : v \in {s} })
\* op.tr()
Tr(A) == SeqSum(A)
\* max(op.eigenenergies()): the eigenvalues of a diagonal matrix are its entries
RECURSIVE SeqMax(_)
SeqMax(s) ==
    The({ IF Len(v) = 1 THEN v[1] ELSE RMax(v[1], SeqMax(Tail(v))) : v \in {s} })
\* A.sqrtm(): the principal square root of a diagonal matrix
Sqrtm(A) == [i \in DOMAIN A |-> Entry(FALSE, A[i])]
\* Qobj.__eq__ under CoreOptions(rtol, atol).  The entries the model draws are
\* integers and halves, which differ by at least 1/2 when they differ at all,
\* far above atol + rtol * |x| for rtol = 1e-5 and atol = 1e-8.
MatEqual(A, B) == \A i \in DOMAIN A : A[i] = B[i]

\* ------------------------------------------------------------ rate functions
\* Gamma(t) = c for every t
ConstRate(c) == [kind |-> "const", c0 |-> c, c1 |-> R(0)]
\* Gamma(t) = c0 + c1 * k on [k, k+1)
RampRate(c0, c1) == [kind |-> "ramp", c0 |-> c0, c1 |-> c1]
\* The builtin float, which __init__ pairs with the extra operator: float(t) is t.
FloatRate == [kind |-> "float", c0 |-> R(0), c1 |-> R(1)]
\* f[1](t)
RateAt(f, t) ==
    CASE f.kind = "const" -> f.c0
      [] f.kind = "ramp" -> RAdd(f.c0, RMul(f.c1, R(t)))
      [] f.kind = "float" -> R(t)

RateFunctions ==
    { ConstRate(Rat(-1, 2)), ConstRate(R(1)), ConstRate(R(-2)),
      RampRate(R(1), R(-2)) }

\* The ops_and_rates argument of the constructor: one or two (L_i, Gamma_i) pairs.
Pair(L, f) == <<L, f>>
OpsAndRatesInputs ==
    LET P == { Pair(L, f) : L \in Operators, f \in RateFunctions }
    IN  { <<p>> : p \in P } \cup { <<p, q>> : p \in P, q \in P }

\* ------------------------------------------------------------ construction
\* _check_completeness with a = trace / dim kept when an extra operator is made
CheckCompletenessMean(o_r) ==
    LET dim == Len(o_r[1][1])
        RECURSIVE OpSum(_)
        OpSum(k) == IF k = 1 THEN DagMul(o_r[1][1])
                    ELSE MatAdd(OpSum(k - 1), DagMul(o_r[k][1]))
        op == OpSum(Len(o_r))
        a_candidate == RDiv(Tr(op), R(dim))
    IN  IF MatEqual(op, MatScale(a_candidate, Qeye(dim)))
        THEN [a |-> a_candidate, none |-> TRUE, L |-> <<>>]
        ELSE [a |-> a_candidate, none |-> FALSE,
              L |-> Sqrtm(MatSub(MatScale(a_candidate, Qeye(dim)), op))]

\* _check_completeness: [a |-> the proportionality factor,
\*                       none |-> no extra operator, L |-> the extra operator]
_check_completeness(o_r) ==
    LET dim == Len(o_r[1][1])
        RECURSIVE OpSum(_)
        OpSum(k) == IF k = 1 THEN DagMul(o_r[1][1])
                    ELSE MatAdd(OpSum(k - 1), DagMul(o_r[k][1]))
        op == OpSum(Len(o_r))
        a_candidate == RDiv(Tr(op), R(dim))
        a == SeqMax(op)
    IN  IF MatEqual(op, MatScale(a_candidate, Qeye(dim)))
        THEN [a |-> a_candidate, none |-> TRUE, L |-> <<>>]
        ELSE [a |-> a, none |-> FALSE,
              L |-> Sqrtm(MatSub(MatScale(a, Qeye(dim)), op))]

\* The extra pair put first: the given pairs move up by one index
AugmentedInFront(o_r) ==
    LET c == _check_completeness(o_r)
    IN  IF c.none THEN o_r ELSE <<Pair(c.L, FloatRate)>> \o o_r

\* self.ops_and_rates after __init__: the pairs given, then the extra pair
Augmented(o_r) ==
    LET c == _check_completeness(o_r)
    IN  IF c.none THEN o_r ELSE Append(o_r, Pair(c.L, FloatRate))

\* _rate_shift with the shift not doubled: abs(min(0, min_rate))
RateShiftNotDoubled(o_r, t) ==
    LET RECURSIVE MinRate(_)
        MinRate(k) == IF k = 1 THEN RateAt(o_r[1][2], t)
                      ELSE RMin(MinRate(k - 1), RateAt(o_r[k][2], t))
    IN  RAbs(RMin(R(0), MinRate(Len(o_r))))

\* _rate_shift from the rate of the first operator alone
RateShiftOfFirst(o_r, t) ==
    RMul(R(2), RAbs(RMin(R(0), RateAt(o_r[1][2], t))))

\* _rate_shift(t) over the sequence o_r of (L_i, Gamma_i)
_rate_shift(o_r, t) ==
    LET RECURSIVE MinRate(_)
        MinRate(k) == IF k = 1 THEN RateAt(o_r[1][2], t)
                      ELSE RMin(MinRate(k - 1), RateAt(o_r[k][2], t))
        min_rate == MinRate(Len(o_r))
    IN  RMul(R(2), RAbs(RMin(R(0), min_rate)))

\* np.sqrt(x): the root as an entry, nan for a negative radicand
NpSqrt(x) == The({ [nan |-> RLess(v, R(0)), sq |-> v] : v \in {x} })

\* _sqrt_gamma without the shift: np.sqrt(original_rate(t))
SqrtGammaUnshifted(o_r, t, original_rate) ==
    NpSqrt(RateAt(original_rate, t))

\* _sqrt_gamma(t, original_rate)
_sqrt_gamma(o_r, t, original_rate) ==
    NpSqrt(RAdd(RateAt(original_rate, t), _rate_shift(o_r, t)))

\* _compute_paired_c_ops: one QobjEvo([L_i, sqrt_gamma_i]) per pair, in order
_compute_paired_c_ops(o_r) ==
    [i \in 1 .. Len(o_r) |-> [L |-> o_r[i][1], original_rate |-> o_r[i][2]]]

\* ------------------------------------------------------------ martingale
\* self._mu_c: None, or a dict from times to values
None == [none |-> TRUE, d |-> <<>>]
Dict(d) == [none |-> FALSE, d |-> d]
\* The cache reset at time 0 whatever t0 is: {0: 1}
FreshCacheAtZero(t0) == Dict([t \in {0} |-> EOne])
\* {t0: 1}
FreshCache(t0) == Dict([t \in {t0} |-> EOne])
\* what a call that raised returns
NoValue == [q |-> R(0), x |-> R(0), none |-> TRUE]

SetMax(S) == CHOOSE m \in S : \A k \in S : k <= m
SetMin(S) == CHOOSE m \in S : \A k \in S : m <= k

\* scipy.integrate.quad(self._rate_shift, t0, t)[0] for t0 < t: the rate shift is
\* constant on every [k, k+1)
RECURSIVE Quad(_, _, _)
Quad(o_r, t0, t) ==
    IF t0 >= t THEN R(0)
    ELSE RAdd(_rate_shift(o_r, t0), Quad(o_r, t0 + 1, t))

\* _continuous_martingale without the factor self._mu_c[t0]
ContinuousFromOne(mu, a, o_r, t) ==
    IF mu.none
    THEN [err |-> "RuntimeError", val |-> NoValue, mu_c |-> mu, quads |-> 0,
          used |-> {}]
    ELSE IF t \in DOMAIN mu.d
    THEN [err |-> "ok", val |-> mu.d[t], mu_c |-> mu, quads |-> 0, used |-> {t}]
    ELSE LET earlier_times == { t0 \in DOMAIN mu.d : t0 < t }
         IN  IF earlier_times = {}
             THEN [err |-> "ValueError", val |-> NoValue, mu_c |-> mu,
                   quads |-> 0, used |-> {}]
             ELSE The({ The({ [err |-> "ok", val |-> result,
                               mu_c |-> Dict([k \in DOMAIN mu.d \cup {t} |->
                                                IF k = t THEN result ELSE mu.d[k]]),
                               quads |-> 1, used |-> {t0, t}] :
                              result \in { NpExp(RMul(a, Quad(o_r, t0, t))) } }) :
                        t0 \in {SetMax(earlier_times)} })

\* _continuous_martingale without the check for None: an unset cache is read
\* as an empty one
ContinuousUnchecked(mu, a, o_r, t) ==
    IF t \in DOMAIN mu.d
    THEN [err |-> "ok", val |-> mu.d[t], mu_c |-> mu, quads |-> 0, used |-> {t}]
    ELSE LET earlier_times == { t0 \in DOMAIN mu.d : t0 < t }
         IN  IF earlier_times = {}
             THEN [err |-> "ValueError", val |-> NoValue, mu_c |-> mu,
                   quads |-> 0, used |-> {}]
             ELSE The({ The({ [err |-> "ok", val |-> result,
                               mu_c |-> Dict([k \in DOMAIN mu.d \cup {t} |->
                                                IF k = t THEN result ELSE mu.d[k]]),
                               quads |-> 1, used |-> {t0, t}] :
                              result \in { EMul(mu.d[t0],
                                                NpExp(RMul(a, Quad(o_r, t0, t)))) } }) :
                        t0 \in {SetMax(earlier_times)} })

\* _continuous_martingale integrating from the closest key when no key is
\* earlier than t
ContinuousBackward(mu, a, o_r, t) ==
    IF mu.none
    THEN [err |-> "RuntimeError", val |-> NoValue, mu_c |-> mu, quads |-> 0,
          used |-> {}]
    ELSE IF t \in DOMAIN mu.d
    THEN [err |-> "ok", val |-> mu.d[t], mu_c |-> mu, quads |-> 0, used |-> {t}]
    ELSE LET earlier_times == { t0 \in DOMAIN mu.d : t0 < t }
         IN  The({ The({ [err |-> "ok", val |-> result,
                          mu_c |-> Dict([k \in DOMAIN mu.d \cup {t} |->
                                           IF k = t THEN result ELSE mu.d[k]]),
                          quads |-> 1, used |-> {t0, t}] :
                         result \in { EMul(mu.d[t0],
                                           NpExp(RMul(a, Quad(o_r, t0, t)))) } }) :
                   t0 \in {IF earlier_times = {} THEN SetMin(DOMAIN mu.d)
                           ELSE SetMax(earlier_times)} })

\* _continuous_martingale without self._mu_c[t] = result
ContinuousNoStore(mu, a, o_r, t) ==
    IF mu.none
    THEN [err |-> "RuntimeError", val |-> NoValue, mu_c |-> mu, quads |-> 0,
          used |-> {}]
    ELSE IF t \in DOMAIN mu.d
    THEN [err |-> "ok", val |-> mu.d[t], mu_c |-> mu, quads |-> 0, used |-> {t}]
    ELSE LET earlier_times == { t0 \in DOMAIN mu.d : t0 < t }
         IN  IF earlier_times = {}
             THEN [err |-> "ValueError", val |-> NoValue, mu_c |-> mu,
                   quads |-> 0, used |-> {}]
             ELSE The({ [err |-> "ok",
                         val |-> EMul(mu.d[t0], NpExp(RMul(a, Quad(o_r, t0, t)))),
                         mu_c |-> mu, quads |-> 1, used |-> {t0}] :
                        t0 \in {SetMax(earlier_times)} })

\* _continuous_martingale keeping only the entry it computed: {t: result}
ContinuousForgets(mu, a, o_r, t) ==
    IF mu.none
    THEN [err |-> "RuntimeError", val |-> NoValue, mu_c |-> mu, quads |-> 0,
          used |-> {}]
    ELSE IF t \in DOMAIN mu.d
    THEN [err |-> "ok", val |-> mu.d[t], mu_c |-> mu, quads |-> 0, used |-> {t}]
    ELSE LET earlier_times == { t0 \in DOMAIN mu.d : t0 < t }
         IN  IF earlier_times = {}
             THEN [err |-> "ValueError", val |-> NoValue, mu_c |-> mu,
                   quads |-> 0, used |-> {}]
             ELSE The({ The({ [err |-> "ok", val |-> result,
                               mu_c |-> Dict([k \in {t} |-> result]),
                               quads |-> 1, used |-> {t0, t}] :
                              result \in { EMul(mu.d[t0],
                                                NpExp(RMul(a, Quad(o_r, t0, t)))) } }) :
                        t0 \in {SetMax(earlier_times)} })

\* _continuous_martingale refusing every uncached time below the latest key
ContinuousForwardOnly(mu, a, o_r, t) ==
    IF mu.none
    THEN [err |-> "RuntimeError", val |-> NoValue, mu_c |-> mu, quads |-> 0,
          used |-> {}]
    ELSE IF t \in DOMAIN mu.d
    THEN [err |-> "ok", val |-> mu.d[t], mu_c |-> mu, quads |-> 0, used |-> {t}]
    ELSE IF t < SetMax(DOMAIN mu.d)
    THEN [err |-> "ValueError", val |-> NoValue, mu_c |-> mu, quads |-> 0,
          used |-> {}]
    ELSE The({ The({ [err |-> "ok", val |-> result,
                      mu_c |-> Dict([k \in DOMAIN mu.d \cup {t} |->
                                       IF k = t THEN result ELSE mu.d[k]]),
                      quads |-> 1, used |-> {t0, t}] :
                     result \in { EMul(mu.d[t0],
                                       NpExp(RMul(a, Quad(o_r, t0, t)))) } }) :
               t0 \in {SetMax(DOMAIN mu.d)} })

\* _continuous_martingale storing a key for t before it looks for an earlier
\* time, so that a refused request leaves the key behind
ContinuousMarksFirst(mu, a, o_r, t) ==
    IF mu.none
    THEN [err |-> "RuntimeError", val |-> NoValue, mu_c |-> mu, quads |-> 0,
          used |-> {}]
    ELSE IF t \in DOMAIN mu.d
    THEN [err |-> "ok", val |-> mu.d[t], mu_c |-> mu, quads |-> 0, used |-> {t}]
    ELSE LET earlier_times == { t0 \in DOMAIN mu.d : t0 < t }
         IN  IF earlier_times = {}
             THEN [err |-> "ValueError", val |-> NoValue,
                   mu_c |-> Dict([k \in DOMAIN mu.d \cup {t} |->
                                    IF k = t THEN EOne ELSE mu.d[k]]),
                   quads |-> 0, used |-> {}]
             ELSE The({ The({ [err |-> "ok", val |-> result,
                               mu_c |-> Dict([k \in DOMAIN mu.d \cup {t} |->
                                                IF k = t THEN result ELSE mu.d[k]]),
                               quads |-> 1, used |-> {t0, t}] :
                              result \in { EMul(mu.d[t0],
                                                NpExp(RMul(a, Quad(o_r, t0, t)))) } }) :
                        t0 \in {SetMax(earlier_times)} })

\* _continuous_martingale(t) on the cache mu:
\*   [err, val, mu_c |-> the cache afterwards, quads |-> the quadratures done,
\*    used |-> the keys read or written]
_continuous_martingale(mu, a, o_r, t) ==
    IF mu.none
    THEN [err |-> "RuntimeError", val |-> NoValue, mu_c |-> mu, quads |-> 0,
          used |-> {}]
    ELSE IF t \in DOMAIN mu.d
    THEN [err |-> "ok", val |-> mu.d[t], mu_c |-> mu, quads |-> 0, used |-> {t}]
    ELSE LET earlier_times == { t0 \in DOMAIN mu.d : t0 < t }
         IN  IF earlier_times = {}
             THEN [err |-> "ValueError", val |-> NoValue, mu_c |-> mu,
                   quads |-> 0, used |-> {}]
             ELSE The({ The({ [err |-> "ok", val |-> result,
                               mu_c |-> Dict([k \in DOMAIN mu.d \cup {t} |->
                                                IF k = t THEN result ELSE mu.d[k]]),
                               quads |-> 1, used |-> {t0, t}] :
                              result \in { EMul(mu.d[t0],
                                                NpExp(RMul(a, Quad(o_r, t0, t)))) } }) :
                        t0 \in {SetMax(earlier_times)} })

\* Factor with the sign of the ratio lost: abs(Gamma / (Gamma + sigma))
FactorAbs(o_r, tk, ik) ==
    The({ The({ IF den[1] = 0 THEN [err |-> "ZeroDivisionError", val |-> R(0)]
                ELSE [err |-> "ok", val |-> RAbs(RDiv(g, den))] :
                den \in {RAdd(g, _rate_shift(o_r, tk))} }) :
          g \in {RateAt(o_r[ik][2], tk)} })

\* One factor of the discrete martingale, for the event <<tk, ik>>
Factor(o_r, tk, ik) ==
    The({ The({ IF den[1] = 0 THEN [err |-> "ZeroDivisionError", val |-> R(0)]
                ELSE [err |-> "ok", val |-> RDiv(g, den)] :
                den \in {RAdd(g, _rate_shift(o_r, tk))} }) :
          g \in {RateAt(o_r[ik][2], tk)} })

\* _discrete_martingale keeping the factor of the last event only
DiscreteLastFactor(o_r, collapses) ==
    IF collapses = <<>> THEN [err |-> "ok", val |-> R(1)]
    ELSE Factor(o_r, collapses[Len(collapses)][1], collapses[Len(collapses)][2])

\* _discrete_martingale(collapses): np.prod of the factors, [err, val]
RECURSIVE _discrete_martingale(_, _)
_discrete_martingale(o_r, collapses) ==
    IF collapses = <<>> THEN [err |-> "ok", val |-> R(1)]
    ELSE The({ IF f.err # "ok" THEN f
               ELSE IF rest.err # "ok" THEN rest
               ELSE [err |-> "ok", val |-> RMul(f.val, rest.val)] :
               f \in {Factor(o_r, collapses[1][1], collapses[1][2])},
               rest \in {_discrete_martingale(o_r, Tail(collapses))} })

\* _current_martingale() with the integrator at time t holding `collapses`
_current_martingale(mu, a, o_r, t, collapses) ==
    The({ IF c.err # "ok" THEN c
          ELSE IF d.err # "ok"
          THEN [err |-> d.err, val |-> NoValue, mu_c |-> c.mu_c,
                quads |-> c.quads, used |-> c.used]
          ELSE [err |-> "ok", val |-> EMul(c.val, EOfRat(d.val)),
                mu_c |-> c.mu_c, quads |-> c.quads, used |-> c.used] :
          c \in {_continuous_martingale(mu, a, o_r, t)},
          d \in {_discrete_martingale(o_r, collapses)} })

\* ------------------------------------------------------------ states
\* A ket is [kind |-> "ket", v |-> integer amplitudes] (a basis vector up to
\* sign); a density matrix is [kind |-> "oper", diag |-> its diagonal], of
\* q * e^x numbers.
Ket(v) == [kind |-> "ket", v |-> v]
\* The initial state handed to start, run and _run_one_traj
Kets == { Ket(<<0, -1>>) }
isket(q) == q.kind = "ket"
ket2dm(q) ==
    [kind |-> "oper", diag |-> [i \in DOMAIN q.v |-> EOfRat(R(q.v[i] * q.v[i]))]]
\* _2dm(q)
_2dm(q) == IF isket(q) THEN ket2dm(q) ELSE q
\* state_dm * mu
DmScale(dm, mu) ==
    [kind |-> "oper", diag |-> [i \in DOMAIN dm.diag |-> EMul(dm.diag[i], mu)]]
\* The trace of a density matrix whose nonzero entries share one exponent
DmTrace(dm) ==
    LET nz == { i \in DOMAIN dm.diag : dm.diag[i].q[1] # 0 }
        x == IF nz = {} THEN R(0) ELSE dm.diag[SetMin(nz)].x
    IN  ENum(SeqSum([i \in DOMAIN dm.diag |-> dm.diag[i].q]), x)

\* ------------------------------------------------------------ the engine
\* The Monte-Carlo integrator of MCSolver: whether set_state was called, its
\* time, its state and the collapses <<t_k, i_k>> it recorded.
NoState == [kind |-> "none", v |-> <<>>]
IntegratorInit == [set |-> FALSE, t |-> 0, state |-> NoState, collapses |-> <<>>]
\* self._integrator.set_state(t, state, generator)
set_state(t, state) == [set |-> TRUE, t |-> t, state |-> state, collapses |-> <<>>]

\* The engine can jump with paired operator ik at tk on `state`: the squared
\* coefficient Gamma_ik(tk) + sigma(tk) is positive and L_ik does not annihilate
\* the state.
JumpOK(cops, o_r, state, tk, ik) ==
    LET c == _sqrt_gamma(o_r, tk, cops[ik].original_rate)
    IN  /\ ~c.nan
        /\ c.sq[1] > 0
        /\ \E i \in DOMAIN state.v : state.v[i] # 0 /\ cops[ik].L[i].sq[1] # 0

\* The state after a jump with L: L applied, normalised
ApplyJump(state, L) ==
    Ket([i \in DOMAIN state.v |-> IF L[i].neg THEN -state.v[i] ELSE state.v[i]])

RECURSIVE ApplyJumps(_, _, _)
ApplyJumps(state, cops, js) ==
    IF js = <<>> THEN state
    ELSE ApplyJumps(ApplyJump(state, cops[js[1][2]].L), cops, Tail(js))

\* The jump sequences the engine can produce in (lo, hi]: at most n events, at
\* increasing times, each one possible
RECURSIVE SeqsUpTo(_, _)
SeqsUpTo(E, n) ==
    IF n = 0 THEN { <<>> }
    ELSE The({ S \cup { Append(js, e) :
                        js \in { x \in S : Len(x) = n - 1 }, e \in E } :
               S \in {SeqsUpTo(E, n - 1)} })
JumpSeqs(cops, o_r, state, n, lo, hi) ==
    LET Events == { e \in (lo + 1 .. hi) \X (1 .. Len(cops)) :
                      JumpOK(cops, o_r, state, e[1], e[2]) }
    IN  { js \in SeqsUpTo(Events, n) :
            \A k \in 1 .. Len(js) - 1 : js[k][1] < js[k + 1][1] }

\* The events of js in (lo, hi]
EventsIn(js, lo, hi) == SelectSeq(js, LAMBDA e : lo < e[1] /\ e[1] <= hi)

\* self._integrator.integrate(t): the time advances to t, the jumps js happen
integrate(integ, cops, t, js) ==
    [integ EXCEPT !.t = t, !.collapses = @ \o js,
                  !.state = ApplyJumps(@, cops, js)]

\* ------------------------------------------------------------ a trajectory
\* _run_one_traj(seed, state, tlist, e_ops), the seed deciding the jumps js:
\*   [err, mu_c, integ, result, quads, used]
\* One pass of its loop, for tlist[k], from the loop state st:
TrajStep(st, a, o_r, cops, tlist, js, k) ==
    The({ The({ [err |-> m.err, mu_c |-> m.mu_c, integ |-> i2,
                 quads |-> st.quads + m.quads, used |-> st.used \cup m.used,
                 result |->
                   IF m.err # "ok" THEN st.result
                   ELSE [times |-> Append(st.result.times, i2.t),
                         states |-> Append(st.result.states,
                                           DmScale(_2dm(i2.state), m.val)),
                         trace |-> Append(st.result.trace, m.val),
                         collapse |-> <<>>]] :
                m \in {_current_martingale(st.mu_c, a, o_r, i2.t, i2.collapses)} }) :
          i2 \in {integrate(st.integ, cops, tlist[k],
                            EventsIn(js, tlist[k - 1], tlist[k]))} })

RECURSIVE TrajLoop(_, _, _, _, _, _, _)
TrajLoop(st, a, o_r, cops, tlist, js, k) ==
    IF k > Len(tlist) \/ st.err # "ok" THEN st
    ELSE The({ TrajLoop(s2, a, o_r, cops, tlist, js, k + 1) :
               s2 \in {TrajStep(st, a, o_r, cops, tlist, js, k)} })

_run_one_traj(mu, integ, a, o_r, cops, state, tlist, js) ==
    The({ [end EXCEPT !.result.collapse = end.integ.collapses] :
          end \in { TrajLoop([err |-> "ok", mu_c |-> mu,
                              integ |-> set_state(tlist[1], state),
                              quads |-> 0, used |-> {},
                              result |-> [times |-> <<tlist[1]>>,
                                          states |-> <<_2dm(state)>>,
                                          trace |-> <<EOne>>,
                                          collapse |-> <<>>]],
                             a, o_r, cops, tlist, js, 2) } })

\* run, lines 116-118: the cache reset at tlist[0], then one query per later time
RECURSIVE PrecomputeLoop(_, _, _, _, _)
PrecomputeLoop(st, a, o_r, tlist, k) ==
    IF k > Len(tlist) \/ st.err # "ok" THEN st
    ELSE The({ PrecomputeLoop([err |-> c.err, mu_c |-> c.mu_c,
                               quads |-> st.quads + c.quads],
                              a, o_r, tlist, k + 1) :
               c \in {_continuous_martingale(st.mu_c, a, o_r, tlist[k])} })

\* The precomputation over tlist[1:-1]: the last time is left out
PrecomputeButLast(a, o_r, tlist) ==
    PrecomputeLoop([err |-> "ok", mu_c |-> FreshCache(tlist[1]), quads |-> 0],
                   a, o_r, SubSeq(tlist, 1, Len(tlist) - 1), 2)

precompute(a, o_r, tlist) ==
    PrecomputeLoop([err |-> "ok", mu_c |-> FreshCache(tlist[1]), quads |-> 0],
                   a, o_r, tlist, 2)

\* ------------------------------------------------------------ the solver
VARIABLES
    ops_and_rates,  \* self.ops_and_rates
    a_parameter,    \* self._a_parameter
    c_ops,          \* the paired operators handed to MCSolver.__init__
    mu_c,           \* self._mu_c
    integ,          \* self._integrator
    run_st,         \* the position of a run call: [pc, tlist, state, done]
    ret,            \* what the last call returned or raised
    mu_users,       \* per key of self._mu_c, how many trajectories used it
    finished        \* a trajectory ended since self._mu_c was last assigned

vars == <<ops_and_rates, a_parameter, c_ops, mu_c, integ, run_st, ret, mu_users,
          finished>>

Idle == [pc |-> "idle", tlist |-> <<>>, state |-> NoState, done |-> FALSE]

\* The tlists: every strictly increasing one, and the ones run's precomputation
\* rejects, an increasing list followed by a time before its first
Increasing(tl) == \A k \in 1 .. Len(tl) - 1 : tl[k] < tl[k + 1]
Rejected(tl) ==
    /\ Len(tl) >= 2
    /\ tl[Len(tl)] < tl[1]
    /\ Increasing(SubSeq(tl, 1, Len(tl) - 1))
TLists == { tl \in UNION { [1 .. n -> Time] : n \in 1 .. MaxT + 1 } :
              Increasing(tl) \/ Rejected(tl) }

\* The solvers of the lifecycle specification: scenario A (one operator with
\* L.dag() * L the identity, rate -1/2), scenario B (rates 1 and -2), and one
\* operator that needs the extra operator, with a rate that turns negative.
ScenarioA == <<Pair(SigmaZ, ConstRate(Rat(-1, 2)))>>
ScenarioB == <<Pair(SigmaZ, ConstRate(R(1))), Pair(SigmaZ, ConstRate(R(-2)))>>
ScenarioC == <<Pair(Lopsided, RampRate(R(1), R(-2)))>>
SolverInputs == {ScenarioA, ScenarioB, ScenarioC}

\* __init__
Init ==
    \E o_r \in SolverInputs :
        /\ ops_and_rates = Augmented(o_r)
        /\ a_parameter = _check_completeness(o_r).a
        /\ c_ops = _compute_paired_c_ops(Augmented(o_r))
        /\ mu_c = None
        /\ integ = IntegratorInit
        /\ run_st = Idle
        /\ ret = [op |-> "init", err |-> "ok"]
        /\ mu_users = <<>>
        /\ finished = FALSE

\* mu_users after a call that left the cache `mu`; a _run_one_traj call
\* (traj) counts once for every key it read or wrote.  The count stops at 2.
Users(old, mu, used, traj) ==
    [k \in DOMAIN mu.d |->
        The({ IF traj /\ k \in used /\ n < 2 THEN n + 1 ELSE n :
              n \in {IF k \in DOMAIN old THEN old[k] ELSE 0} })]

\* A call that appends a pair to self.ops_and_rates once more
FrameAppendsAgain ==
    /\ ops_and_rates' = Append(ops_and_rates, ops_and_rates[Len(ops_and_rates)])
    /\ UNCHANGED <<a_parameter, c_ops>>

Frame == UNCHANGED <<ops_and_rates, a_parameter, c_ops>>

\* start(state, t0, seed)
Start(state, t0) ==
    /\ run_st.pc = "idle"
    /\ mu_c' = FreshCache(t0)
    /\ integ' = set_state(t0, state)
    /\ ret' = [op |-> "start", err |-> "ok", t |-> t0,
               had |-> IF mu_c.none THEN 0 ELSE Cardinality(DOMAIN mu_c.d)]
    /\ mu_users' = Users(<<>>, mu_c', {}, FALSE)
    /\ finished' = FALSE
    /\ UNCHANGED run_st
    /\ Frame

\* _continuous_martingale(t), called on the solver
ContinuousQuery(t) ==
    /\ run_st.pc = "idle"
    /\ \E c \in {_continuous_martingale(mu_c, a_parameter, ops_and_rates, t)} :
           /\ mu_c' = c.mu_c
           /\ ret' = [op |-> "continuous", err |-> c.err, t |-> t, val |-> c.val,
                      quads |-> c.quads]
           /\ mu_users' = Users(mu_users, c.mu_c, {}, FALSE)
    /\ UNCHANGED <<integ, run_st, finished>>
    /\ Frame

\* _continuous_martingale(t) in which a rate function or scipy.integrate.quad
\* raises: line 94 is reached, for an uncached t with an earlier key, and the
\* exception leaves the method before line 96
ContinuousQuadRaises(t) ==
    /\ run_st.pc = "idle"
    /\ ~mu_c.none
    /\ t \notin DOMAIN mu_c.d
    /\ \E t0 \in DOMAIN mu_c.d : t0 < t
    /\ ret' = [op |-> "quad_raises", err |-> "propagated", t |-> t,
               val |-> NoValue, quads |-> 0]
    /\ UNCHANGED <<mu_c, integ, run_st, mu_users, finished>>
    /\ Frame

\* _current_martingale(), called on the solver; an integrator that was never
\* set reports whatever time it holds
CurrentQuery ==
    /\ run_st.pc = "idle"
    /\ \E t \in (IF integ.set THEN {integ.t} ELSE Time) :
         \E m \in {_current_martingale(mu_c, a_parameter, ops_and_rates, t,
                                       integ.collapses)} :
             /\ mu_c' = m.mu_c
             /\ ret' = [op |-> "current", err |-> m.err, t |-> t, val |-> m.val,
                        quads |-> m.quads]
             /\ mu_users' = Users(mu_users, m.mu_c, {}, FALSE)
    /\ UNCHANGED <<integ, run_st, finished>>
    /\ Frame

\* step(t) before the integrator was set: MCSolver.step raises
StepUnset(t) ==
    /\ run_st.pc = "idle"
    /\ ~integ.set
    /\ ret' = [op |-> "step", err |-> "RuntimeError", t |-> t, val |-> NoValue,
               mu |-> NoValue, quads |-> 0]
    /\ UNCHANGED <<mu_c, integ, run_st, mu_users, finished>>
    /\ Frame

\* step(t): the engine advances to t with the jumps js, the state is weighted
Step(t) ==
    /\ run_st.pc = "idle"
    /\ integ.set
    /\ integ.t <= t
    /\ \E js \in JumpSeqs(c_ops, ops_and_rates, integ.state,
                          MaxJumps - Len(integ.collapses), integ.t, t) :
         \E i2 \in {integrate(integ, c_ops, t, js)} :
         \E m \in {_current_martingale(mu_c, a_parameter, ops_and_rates, i2.t,
                                       i2.collapses)} :
             /\ integ' = i2
             /\ mu_c' = m.mu_c
             /\ ret' = [op |-> "step", err |-> m.err, t |-> t,
                        val |-> IF m.err = "ok" THEN DmScale(_2dm(i2.state), m.val)
                                ELSE NoValue,
                        mu |-> m.val, quads |-> m.quads]
             /\ mu_users' = Users(mu_users, m.mu_c, {}, FALSE)
    /\ UNCHANGED <<run_st, finished>>
    /\ Frame

\* A _run_one_traj call that discards the cache when it returns
TrajEffectDiscards(op, r, tlist) ==
    /\ mu_c' = None
    /\ integ' = r.integ
    /\ ret' = [op |-> op, err |-> r.err, tlist |-> tlist, result |-> r.result,
               quads |-> r.quads]
    /\ mu_users' = <<>>
    /\ finished' = (finished \/ r.err = "ok")

\* What a _run_one_traj call leaves behind
TrajEffect(op, r, tlist) ==
    /\ mu_c' = r.mu_c
    /\ integ' = r.integ
    /\ ret' = [op |-> op, err |-> r.err, tlist |-> tlist, result |-> r.result,
               quads |-> r.quads]
    /\ mu_users' = Users(mu_users, r.mu_c, r.used, TRUE)
    /\ finished' = (finished \/ r.err = "ok")

\* _run_one_traj(seed, state, tlist, e_ops), called on the solver
RunOneTraj(state, tlist) ==
    /\ run_st.pc = "idle"
    /\ Increasing(tlist)
    /\ \E js \in JumpSeqs(c_ops, ops_and_rates, state, MaxJumps, tlist[1],
                          tlist[Len(tlist)]) :
         \E r \in {_run_one_traj(mu_c, integ, a_parameter, ops_and_rates,
                                   c_ops, state, tlist, js)} :
             TrajEffect("traj", r, tlist)
    /\ UNCHANGED run_st
    /\ Frame

\* run(state, tlist, ntraj), lines 116-118; a failed precomputation ends the call
RunBegin(state, tlist) ==
    /\ run_st.pc = "idle"
    /\ \E p \in {precompute(a_parameter, ops_and_rates, tlist)} :
           /\ mu_c' = p.mu_c
           /\ ret' = [op |-> "precompute", err |-> p.err, tlist |-> tlist,
                      quads |-> p.quads]
           /\ run_st' = IF p.err = "ok"
                        THEN [pc |-> "running", tlist |-> tlist, state |-> state,
                              done |-> FALSE]
                        ELSE Idle
           /\ mu_users' = Users(<<>>, p.mu_c, {}, FALSE)
    /\ finished' = FALSE
    /\ UNCHANGED integ
    /\ Frame

\* One of the ntraj trajectories of MCSolver.run:
\* _run_one_traj(seed, state, tlist, e_ops)
RunTraj ==
    /\ run_st.pc = "running"
    /\ \E js \in JumpSeqs(c_ops, ops_and_rates, run_st.state, MaxJumps,
                          run_st.tlist[1], run_st.tlist[Len(run_st.tlist)]) :
         \E r \in {_run_one_traj(mu_c, integ, a_parameter, ops_and_rates,
                                   c_ops, run_st.state, run_st.tlist, js)} :
             /\ TrajEffect("run_traj", r, run_st.tlist)
             /\ run_st' = IF r.err = "ok" THEN [run_st EXCEPT !.done = TRUE]
                          ELSE Idle
    /\ Frame

\* run returns once its ntraj >= 1 trajectories are done
RunReturn ==
    /\ run_st.pc = "running"
    /\ run_st.done
    /\ run_st' = Idle
    /\ ret' = [op |-> "run", err |-> "ok", tlist |-> run_st.tlist]
    /\ UNCHANGED <<mu_c, integ, mu_users, finished>>
    /\ Frame

Next ==
    \/ \E state \in Kets, t0 \in Time : Start(state, t0)
    \/ \E t \in Time : ContinuousQuery(t)
    \/ \E t \in Time : ContinuousQuadRaises(t)
    \/ CurrentQuery
    \/ \E t \in Time : StepUnset(t)
    \/ \E t \in Time : Step(t)
    \/ \E state \in Kets, tlist \in TLists : RunOneTraj(state, tlist)
    \/ \E state \in Kets, tlist \in TLists : RunBegin(state, tlist)
    \/ RunTraj
    \/ RunReturn

Spec == Init /\ [][Next]_vars

\* ------------------------------------------------------------ the functions
\* The specification of the pure functions: a solver is constructed from any
\* of the inputs and one call is drawn, of _check_completeness, _rate_shift,
\* _sqrt_gamma or _discrete_martingale; the call is then made.
\* The collapse lists over n operators: at most MaxEvents events <<t_k, i_k>>
CollapseLists(n) == SeqsUpTo(Time \X (1 .. n), MaxEvents)

\* The calls on the solver constructed from o_r, of n operators
Calls(o_r, n) ==
    { [op |-> "call", fn |-> "completeness", o_r |-> o_r] }
        \cup { [op |-> "call", fn |-> "rate_shift", t |-> t] : t \in Time }
        \cup { [op |-> "call", fn |-> "sqrt_gamma", t |-> t, i |-> i] :
               t \in Time, i \in 1 .. n }
        \cup { [op |-> "call", fn |-> "discrete", collapses |-> cs] :
               cs \in CollapseLists(n) }

InitFn ==
    \E o_r \in OpsAndRatesInputs :
        /\ ops_and_rates = Augmented(o_r)
        /\ a_parameter = _check_completeness(o_r).a
        /\ c_ops = _compute_paired_c_ops(Augmented(o_r))
        /\ mu_c = None
        /\ integ = IntegratorInit
        /\ run_st = Idle
        /\ ret \in Calls(o_r, Len(Augmented(o_r)))
        /\ mu_users = <<>>
        /\ finished = FALSE

\* sigma = _rate_shift(t)
ApplyRateShift ==
    /\ ret.op = "call" /\ ret.fn = "rate_shift"
    /\ ret' = [op |-> "rate_shift", err |-> "ok", t |-> ret.t,
               val |-> _rate_shift(ops_and_rates, ret.t)]
    /\ UNCHANGED <<mu_c, integ, run_st, mu_users, finished>>
    /\ Frame

\* The coefficient of paired operator i at t: _sqrt_gamma(t, original_rate)
ApplySqrtGamma ==
    /\ ret.op = "call" /\ ret.fn = "sqrt_gamma"
    /\ \E c \in {_sqrt_gamma(ops_and_rates, ret.t, c_ops[ret.i].original_rate)} :
         ret' = [op |-> "sqrt_gamma", err |-> "ok", t |-> ret.t, i |-> ret.i,
                 nan |-> c.nan, sq |-> c.sq]
    /\ UNCHANGED <<mu_c, integ, run_st, mu_users, finished>>
    /\ Frame

\* _discrete_martingale(collapses)
ApplyDiscrete ==
    /\ ret.op = "call" /\ ret.fn = "discrete"
    /\ \E d \in {_discrete_martingale(ops_and_rates, ret.collapses)} :
         ret' = [op |-> "discrete", err |-> d.err, collapses |-> ret.collapses,
                 val |-> d.val]
    /\ UNCHANGED <<mu_c, integ, run_st, mu_users, finished>>
    /\ Frame

\* The ops_and_rates argument the solver was constructed from: the pairs
\* before the one __init__ appended
Given ==
    IF ops_and_rates[Len(ops_and_rates)][2] = FloatRate
    THEN SubSeq(ops_and_rates, 1, Len(ops_and_rates) - 1)
    ELSE ops_and_rates

\* _check_completeness(ops_and_rates), on the constructor's argument
ApplyCompleteness ==
    /\ ret.op = "call" /\ ret.fn = "completeness"
    /\ \E c \in {_check_completeness(ret.o_r)} :
         ret' = [op |-> "completeness", err |-> "ok", o_r |-> ret.o_r,
                 a |-> c.a, none |-> c.none, L |-> c.L]
    /\ UNCHANGED <<mu_c, integ, run_st, mu_users, finished>>
    /\ Frame

NextFn ==
    \/ ApplyCompleteness
    \/ ApplyRateShift
    \/ ApplySqrtGamma
    \/ ApplyDiscrete

SpecFn == InitFn /\ [][NextFn]_vars

\* ------------------------------------------------------------ claims
Rates(t) == { RateAt(ops_and_rates[i][2], t) : i \in 1 .. Len(ops_and_rates) }
\* min_i Gamma_i(t) over the augmented sequence
MinGamma(t) == CHOOSE m \in Rates(t) : \A g \in Rates(t) : RLeq(m, g)

\* C1: the rate shift returned for t is 2 * max(0, -min_i Gamma_i(t)) over the
\* augmented operator sequence, it is not negative, and Gamma_i(t) plus the
\* shift is not negative for any operator i.
C1_RateShift ==
    ret.op = "rate_shift" =>
        /\ ret.val = RMul(R(2), RMax(R(0), RNeg(MinGamma(ret.t))))
        /\ RLeq(R(0), ret.val)
        /\ \A g \in Rates(ret.t) : RLeq(R(0), RAdd(g, ret.val))

\* A shift was computed for a solver of two or more operators with a negative
\* rate at t.
C1_Witness ==
    /\ ret.op = "rate_shift"
    /\ Len(ops_and_rates) >= 2
    /\ RLess(MinGamma(ret.t), R(0))
    /\ RLess(R(0), ret.val)

\* The events of a collapse list that the shifted process can produce
Producible(collapses) ==
    \A k \in 1 .. Len(collapses) :
        RLess(R(0), RAdd(RateAt(ops_and_rates[collapses[k][2]][2], collapses[k][1]),
                         _rate_shift(ops_and_rates, collapses[k][1])))
\* The product of Gamma_ik(tk) over the events, and of Gamma_ik(tk) + sigma(tk)
RECURSIVE ProdGamma(_)
ProdGamma(cs) ==
    IF cs = <<>> THEN R(1)
    ELSE RMul(RateAt(ops_and_rates[cs[1][2]][2], cs[1][1]), ProdGamma(Tail(cs)))
RECURSIVE ProdShifted(_)
ProdShifted(cs) ==
    IF cs = <<>> THEN R(1)
    ELSE RMul(RAdd(RateAt(ops_and_rates[cs[1][2]][2], cs[1][1]),
                   _rate_shift(ops_and_rates, cs[1][1])),
              ProdShifted(Tail(cs)))

\* C2: the discrete martingale of a collapse list is the product over its events
\* of Gamma_ik(tk) / (Gamma_ik(tk) + sigma(tk)), sign included; with the rates 1
\* and -2 one jump on operator 2 gives exactly -1.
C2_Discrete ==
    (ret.op = "discrete" /\ Producible(ret.collapses)) =>
        /\ ret.err = "ok"
        /\ RMul(ret.val, ProdShifted(ret.collapses)) = ProdGamma(ret.collapses)
        /\ (/\ Len(ops_and_rates) = 2
            /\ ops_and_rates[1][2] = ConstRate(R(1))
            /\ ops_and_rates[2][2] = ConstRate(R(-2))
            /\ Len(ret.collapses) = 1
            /\ ret.collapses[1][2] = 2) => ret.val = R(-1)

\* A list of MaxEvents events whose discrete martingale is negative.
C2_Witness ==
    /\ ret.op = "discrete"
    /\ ret.err = "ok"
    /\ Len(ret.collapses) = MaxEvents
    /\ Producible(ret.collapses)
    /\ ret.val[1] < 0

\* The earliest key of the cache
CacheStart == SetMin(DOMAIN mu_c.d)
\* The integral of 2 * max(0, -min_i Gamma_i) over [t0, t], piece by piece
RECURSIVE Integral(_, _)
Integral(t0, t) ==
    IF t0 >= t THEN R(0)
    ELSE RAdd(RMul(R(2), RMax(R(0), RNeg(MinGamma(t0)))), Integral(t0 + 1, t))
\* exp(a * integral of sigma over [t0, t])
ExpIntegral(t0, t) == NpExp(RMul(a_parameter, Integral(t0, t)))

\* C3: the continuous value at t is exp(a * integral of sigma from the reset
\* time to t) whichever entries were cached on the way, directly from t0 or
\* through an intermediate time; for sigma = 1 from 0 to 1 it is exp(a).
C3_PathIndependent ==
    ~mu_c.none =>
        /\ \A t \in DOMAIN mu_c.d : mu_c.d[t] = ExpIntegral(CacheStart, t)
        /\ (ret.op = "continuous" /\ ret.err = "ok") =>
               ret.val = ExpIntegral(CacheStart, ret.t)
        /\ (/\ ops_and_rates = ScenarioA
            /\ CacheStart = 0
            /\ 1 \in DOMAIN mu_c.d) => mu_c.d[1] = NpExp(a_parameter)

\* The value at a third time was integrated from an intermediate cached time
\* and is not 1.
C3_Witness ==
    /\ ~mu_c.none
    /\ ret.op = "continuous"
    /\ ret.err = "ok"
    /\ ret.quads = 1
    /\ \E t1 \in DOMAIN mu_c.d : CacheStart < t1 /\ t1 < ret.t
    /\ ret.val.x # R(0)

\* C4: on a solver on which neither start nor run was called the continuous
\* value, the current martingale, step and the weight computation of
\* _run_one_traj raise the not-started error and return no value.
C4_Uninitialized ==
    mu_c.none =>
        /\ ret.op \in {"continuous", "current", "step"} =>
               (ret.err = "RuntimeError" /\ ret.val = NoValue)
        /\ (ret.op = "traj" /\ Len(ret.tlist) >= 2) =>
               (ret.err = "RuntimeError" /\ Len(ret.result.trace) = 1)

\* _run_one_traj was called on a fresh solver and its weight computation raised.
C4_Witness ==
    /\ mu_c.none
    /\ ret.op = "traj"
    /\ Len(ret.tlist) >= 2
    /\ ret.err = "RuntimeError"

\* C5: on a set cache a continuous-value request for a time before every
\* cached key raises the backward-integration error, returns no value and
\* leaves the cache as it was; the other requests are answered.
C5_NoBackward ==
    [][(ret'.op = "continuous" /\ ~mu_c.none) =>
         IF ret'.t < CacheStart
         THEN ret'.err = "ValueError" /\ ret'.val = NoValue /\ mu_c' = mu_c
         ELSE ret'.err = "ok" /\ ret'.t \in DOMAIN mu_c'.d]_vars

\* A request on a cache reset after time 0 was refused.
C5_Witness ==
    /\ ~mu_c.none
    /\ ret.op = "continuous"
    /\ ret.err = "ValueError"
    /\ ret.t < CacheStart

\* C6: start(state, t0) leaves the cache as exactly {t0: 1} whatever it held;
\* right after it the continuous value at t0 is 1 and, no collapse being
\* recorded, the current martingale is 1.
C6_StartResets ==
    ret.op = "start" =>
        /\ ~mu_c.none
        /\ DOMAIN mu_c.d = {ret.t}
        /\ mu_c.d[ret.t] = EOne
        /\ LET c == _continuous_martingale(mu_c, a_parameter, ops_and_rates, ret.t)
           IN  c.err = "ok" /\ c.val = EOne /\ c.quads = 0
        /\ integ.set /\ integ.t = ret.t /\ integ.collapses = <<>>
        /\ LET m == _current_martingale(mu_c, a_parameter, ops_and_rates,
                                        integ.t, integ.collapses)
           IN  m.err = "ok" /\ m.val = EOne

\* start was called at a time after 0 on a cache of two or more entries.
C6_Witness ==
    /\ ret.op = "start"
    /\ ret.t > 0
    /\ ret.had >= 2

\* C7 as stated: every trajectory has a cache of its own, so that no entry is
\* read or written by two trajectories.
C7_Original ==
    \A k \in DOMAIN mu_users : mu_users[k] <= 1

\* C7, amended: the cache is one per solver.  While run is at its trajectories
\* the cache is the one run's precomputation built, whatever trajectories have
\* run; each of them read its entries for tlist[1:] and computed none.
C7_SharedCache ==
    run_st.pc = "running" =>
        /\ mu_c = precompute(a_parameter, ops_and_rates, run_st.tlist).mu_c
        /\ DOMAIN mu_c.d = { run_st.tlist[k] : k \in 1 .. Len(run_st.tlist) }
        /\ ret.op = "run_traj" =>
               /\ ret.err = "ok"
               /\ ret.quads = 0
               /\ \A k \in 2 .. Len(run_st.tlist) :
                      mu_users[run_st.tlist[k]] >= 1

\* Two trajectories of one run have read the same entry.
C7_Witness ==
    /\ run_st.pc = "running"
    /\ ret.op = "run_traj"
    /\ \E k \in DOMAIN mu_users : mu_users[k] = 2

\* C8 as stated: once a trajectory has finished, a query or step without a new
\* reset does not succeed.
C8_Original ==
    (finished /\ ret.op \in {"continuous", "current", "step"}) =>
        ret.err # "ok"

\* C8, amended: a finished trajectory leaves the cache in place with the
\* entries it used; a later query or step without a new reset is answered from
\* it, and fails only with the backward error for a time before its first key.
C8_CacheKept ==
    /\ (ret.op \in {"traj", "run_traj"} /\ ret.err = "ok" /\ Len(ret.tlist) >= 2) =>
           /\ finished
           /\ ~mu_c.none
           /\ \A k \in 2 .. Len(ret.tlist) : ret.tlist[k] \in DOMAIN mu_c.d
    /\ (finished /\ ~mu_c.none /\ ret.op \in {"continuous", "current", "step"}) =>
           /\ ret.err \in {"ok", "ValueError"}
           /\ ret.err = "ok" <=> ret.t >= CacheStart

\* After a trajectory finished, a step without a new start returned a state.
C8_Witness ==
    /\ finished
    /\ ret.op = "step"
    /\ ret.err = "ok"

\* C9: for increasing times run's precomputation does len(times) - 1
\* quadratures and caches every time; every query of a trajectory of the run is
\* then a cache hit: no quadrature, no backward error.
C9_Precomputed ==
    /\ (ret.op = "precompute" /\ Increasing(ret.tlist)) =>
           /\ ret.err = "ok"
           /\ ret.quads = Len(ret.tlist) - 1
           /\ DOMAIN mu_c.d = { ret.tlist[k] : k \in 1 .. Len(ret.tlist) }
    /\ ret.op = "run_traj" =>
           /\ Increasing(ret.tlist)
           /\ ret.err = "ok"
           /\ ret.quads = 0
           /\ Len(ret.result.trace) = Len(ret.tlist)

\* A trajectory of a run over MaxT + 1 times has returned.
C9_Witness ==
    /\ ret.op = "run_traj"
    /\ ret.err = "ok"
    /\ Len(ret.tlist) = MaxT + 1

\* The martingale at t with the collapses cs: exp(a * integral of sigma from
\* the reset time to t) times the factors of the collapses up to t
MuAt(t, cs) ==
    LET upto == EventsIn(cs, -1, t)
    IN  EMul(ExpIntegral(CacheStart, t),
             EOfRat(RDiv(ProdGamma(upto), ProdShifted(upto))))

\* C10: every entry of the trace of a trajectory, the first included, is the
\* martingale at its time: continuous value times discrete value of the
\* collapses recorded up to then (wherever the continuous value exists, that
\* is from the reset time on).  The first entry is the constant 1 of line 139,
\* which is not the martingale when the cache was reset before tlist[0].
C10_Original ==
    (ret.op \in {"traj", "run_traj"} /\ ret.err = "ok" /\ ~mu_c.none) =>
        /\ Len(ret.result.trace) = Len(ret.result.times)
        /\ \A k \in 1 .. Len(ret.result.times) :
               ret.result.times[k] >= CacheStart =>
                   ret.result.trace[k] =
                       MuAt(ret.result.times[k], ret.result.collapse)

\* Entry i of the sum of L.dag() * L over the pairs of o_r
RECURSIVE SumSq(_, _)
SumSq(o_r, i) ==
    IF o_r = <<>> THEN R(0) ELSE RAdd(o_r[1][1][i].sq, SumSq(Tail(o_r), i))

\* C11: the pair (a, L_extra) of the completeness analysis completes the sum
\* of L.dag() * L to a * identity.  A sum that is already trace/dim * identity
\* gives a = trace/dim and no extra operator; otherwise a is the largest
\* eigenvalue, a * I - sum is positive semi-definite and L_extra its square root.
C11_Completeness ==
    ret.op = "completeness" =>
        LET dims == DOMAIN ret.o_r[1][1]
            S == [i \in dims |-> SumSq(ret.o_r, i)]
            mean == RDiv(SeqSum(S), R(Cardinality(dims)))
        IN  /\ ret.none <=> (\A i \in dims : S[i] = mean)
            /\ ret.none => (ret.a = mean /\ \A i \in dims : S[i] = ret.a)
            /\ ~ret.none =>
                   /\ \E i \in dims : ret.a = S[i]
                   /\ \A i \in dims : RLeq(S[i], ret.a)
                   /\ DOMAIN ret.L = dims
                   /\ \A i \in dims :
                          /\ ~ret.L[i].neg
                          /\ RLeq(R(0), ret.L[i].sq)
                          /\ RAdd(S[i], ret.L[i].sq) = ret.a

\* The analysis of two operators made an extra operator.
C11_Witness ==
    /\ ret.op = "completeness"
    /\ Len(ret.o_r) = 2
    /\ ~ret.none
    /\ \E i \in DOMAIN ret.L : ret.L[i].sq # R(0)

\* The rearrangements of a list
Reorderings(cs) ==
    { [k \in DOMAIN cs |-> cs[p[k]]] :
        p \in { q \in [DOMAIN cs -> DOMAIN cs] :
                  \A i, j \in DOMAIN cs : i # j => q[i] # q[j] } }
DistinctTimes(cs) == \A i, j \in DOMAIN cs : i # j => cs[i][1] # cs[j][1]

\* C12: the discrete martingale of the empty collapse list is exactly 1, and
\* a list of events at distinct times gives the same result in every order.
C12_Reordering ==
    ret.op = "discrete" =>
        /\ ret.collapses = <<>> => (ret.err = "ok" /\ ret.val = R(1))
        /\ DistinctTimes(ret.collapses) =>
               \A cs \in Reorderings(ret.collapses) :
                   LET d == _discrete_martingale(ops_and_rates, cs)
                   IN  d.err = ret.err /\ d.val = ret.val

\* A list of two events at distinct times with different factors was evaluated.
C12_Witness ==
    /\ ret.op = "discrete"
    /\ ret.err = "ok"
    /\ Len(ret.collapses) >= 2
    /\ DistinctTimes(ret.collapses)
    /\ Factor(ops_and_rates, ret.collapses[1][1], ret.collapses[1][2])
         # Factor(ops_and_rates, ret.collapses[2][1], ret.collapses[2][2])
    /\ ret.val # R(1)

\* C13: the paired operators are one per pair of the augmented sequence, in
\* its order; the coefficient of entry i at t is the root of Gamma_i(t) + sigma(t)
\* clamped at zero, never the root of a negative number; a single rate -1/2
\* gives the coefficient sqrt(1/2).
C13_PairedCoefficients ==
    /\ Len(c_ops) = Len(ops_and_rates)
    /\ \A i \in 1 .. Len(ops_and_rates) :
           /\ c_ops[i].L = ops_and_rates[i][1]
           /\ c_ops[i].original_rate = ops_and_rates[i][2]
    /\ ret.op = "sqrt_gamma" =>
           LET radicand == RAdd(RateAt(ops_and_rates[ret.i][2], ret.t),
                                RMul(R(2), RMax(R(0), RNeg(MinGamma(ret.t)))))
           IN  /\ ~ret.nan
               /\ ret.sq = RMax(R(0), radicand)
               /\ RLeq(R(0), ret.sq)
               /\ (/\ Len(ops_and_rates) = 1
                   /\ ops_and_rates[1][2] = ConstRate(Rat(-1, 2))) =>
                      ret.sq = Rat(1, 2)

\* The coefficient of an operator other than the first was evaluated where its
\* rate is negative.
C13_Witness ==
    /\ ret.op = "sqrt_gamma"
    /\ ret.i >= 2
    /\ RLess(RateAt(ops_and_rates[ret.i][2], ret.t), R(0))
    /\ RLess(R(0), ret.sq)

\* C14: between one reset and the next the cache only grows.  A continuous
\* value, current martingale or step call removes no key, changes no value and
\* adds at most the key of the time it asked for; the start time stays mapped
\* to 1 and is the smallest key.
C14_CacheGrows ==
    [][(ret'.op \in {"continuous", "current", "step"} /\ ~mu_c.none) =>
         /\ ~mu_c'.none
         /\ \A k \in DOMAIN mu_c.d :
                k \in DOMAIN mu_c'.d /\ mu_c'.d[k] = mu_c.d[k]
         /\ DOMAIN mu_c'.d \subseteq DOMAIN mu_c.d \cup {ret'.t}
         /\ mu_c.d[CacheStart] = EOne
         /\ SetMin(DOMAIN mu_c'.d) = CacheStart
         /\ mu_c'.d[CacheStart] = EOne]_vars

\* A step added a third key to the cache.
C14_Witness ==
    /\ ret.op = "step"
    /\ ret.err = "ok"
    /\ ret.quads = 1
    /\ ~mu_c.none
    /\ Cardinality(DOMAIN mu_c.d) >= 3

\* C15 as stated: a key that a continuous-value query has just inserted is
\* the largest key of the cache.
C15_Original ==
    (ret.op = "continuous" /\ ret.err = "ok" /\ ret.quads = 1) =>
        ret.t = SetMax(DOMAIN mu_c.d)

\* C15, amended: a continuous-value query for an uncached time is answered
\* whenever some key is earlier, by integrating from the closest earlier key,
\* and the new key may lie below later keys; it is refused, with the cache
\* unchanged, only when no key is earlier.
C15_ClosestEarlier ==
    [][(ret'.op = "continuous" /\ ~mu_c.none /\ ret'.t \notin DOMAIN mu_c.d) =>
         LET earlier == { k \in DOMAIN mu_c.d : k < ret'.t }
         IN  IF earlier # {}
             THEN /\ ret'.err = "ok"
                  /\ ret'.quads = 1
                  /\ DOMAIN mu_c'.d = DOMAIN mu_c.d \cup {ret'.t}
                  /\ ret'.val = EMul(mu_c.d[SetMax(earlier)],
                                     ExpIntegral(SetMax(earlier), ret'.t))
                  /\ mu_c'.d[ret'.t] = ret'.val
             ELSE /\ ret'.err = "ValueError"
                  /\ mu_c' = mu_c]_vars

\* A query inserted a key between two keys of the cache.
C15_Witness ==
    /\ ret.op = "continuous"
    /\ ret.err = "ok"
    /\ ret.quads = 1
    /\ ret.t < SetMax(DOMAIN mu_c.d)
    /\ CacheStart < ret.t

\* __init__ appended an extra operator, at the last index
HasExtra == Len(ops_and_rates) > Len(Given)

\* C16: the extra operator has the rate identically 0: its squared coefficient
\* at t is sigma(t) alone, and a collapse list with an event on its index at a
\* time where sigma > 0 has the discrete martingale exactly 0, whatever other
\* events it holds.
C16_ExtraRateZero ==
    HasExtra =>
        /\ (ret.op = "sqrt_gamma" /\ ret.i = Len(ops_and_rates)) =>
               ret.sq = _rate_shift(Given, ret.t)
        /\ (/\ ret.op = "discrete"
            /\ \E k \in 1 .. Len(ret.collapses) :
                   /\ ret.collapses[k][2] = Len(ops_and_rates)
                   /\ RLess(R(0), _rate_shift(ops_and_rates, ret.collapses[k][1]))
            /\ Producible(ret.collapses)) =>
               (ret.err = "ok" /\ ret.val = R(0))

\* C17: construction keeps every given pair at its index and appends the
\* extra operator, when one is needed, once at the last index; paired operator
\* i is built from pair i, so the index of a collapse selects in the discrete
\* martingale the rate of the operator that jumped.
C17_StableIndices ==
    /\ ret.op = "completeness" =>
           /\ \A i \in 1 .. Len(ret.o_r) : ops_and_rates[i] = ret.o_r[i]
           /\ IF ret.none
              THEN Len(ops_and_rates) = Len(ret.o_r)
              ELSE /\ Len(ops_and_rates) = Len(ret.o_r) + 1
                   /\ ops_and_rates[Len(ret.o_r) + 1][1] = ret.L
    /\ Len(c_ops) = Len(ops_and_rates)
    /\ \A i \in 1 .. Len(c_ops) : c_ops[i].L = ops_and_rates[i][1]
    /\ (ret.op = "discrete" /\ Len(ret.collapses) = 1 /\ ret.err = "ok") =>
           LET tk == ret.collapses[1][1]
               g == RateAt(c_ops[ret.collapses[1][2]].original_rate, tk)
           IN  RMul(ret.val, RAdd(g, _rate_shift(ops_and_rates, tk))) = g

\* A collapse on the second of three operators, the third being the extra one,
\* was weighted.
C17_Witness ==
    /\ HasExtra
    /\ Len(ops_and_rates) = 3
    /\ ret.op = "discrete"
    /\ ret.err = "ok"
    /\ Len(ret.collapses) = 1
    /\ ret.collapses[1][2] = 2
    /\ ops_and_rates[1][2] # ops_and_rates[2][2]

\* C18: the scale factor a is not negative, and no start, run, step,
\* _run_one_traj or martingale query, failing ones included, changes a or
\* the augmented sequence of operators and rates.
C18_ConstructionFixed ==
    [][/\ RLeq(R(0), a_parameter)
       /\ a_parameter' = a_parameter
       /\ ops_and_rates' = ops_and_rates]_vars

\* A query failed after a trajectory had finished.
C18_Witness ==
    /\ finished
    /\ ret.err = "ValueError"
    /\ RLess(R(0), a_parameter)

\* C19: a continuous-value query that fails, with the not-started error, the
\* backward error or an error raised by a rate function or the quadrature,
\* returns nothing and leaves the cache as it was, so that every later query
\* gives what it would have given without the failed one.
C19_FailureKeepsCache ==
    [][(ret'.op \in {"continuous", "quad_raises"} /\ ret'.err # "ok") =>
         /\ ret'.val = NoValue
         /\ mu_c' = mu_c
         /\ \A t \in Time :
                _continuous_martingale(mu_c', a_parameter, ops_and_rates, t)
                    = _continuous_martingale(mu_c, a_parameter, ops_and_rates, t)]_vars

\* A quadrature raised on a cache of two or more keys.
C19_Witness ==
    /\ ret.op = "quad_raises"
    /\ ~mu_c.none
    /\ Cardinality(DOMAIN mu_c.d) >= 2

\* C20: where some rate is negative at t, so that sigma(t) > 0, Gamma_i(t) +
\* sigma(t) is positive for every operator i; the denominator of a factor is
\* zero, and the discrete martingale fails on it, only for an event whose
\* rate is 0 at a time where no rate is negative.
C20_Denominator ==
    /\ ret.op = "rate_shift" =>
           \A i \in 1 .. Len(ops_and_rates) :
               LET g == RateAt(ops_and_rates[i][2], ret.t)
               IN  /\ RLess(R(0), ret.val) => RLess(R(0), RAdd(g, ret.val))
                   /\ RAdd(g, ret.val) = R(0) =>
                          (g = R(0) /\ RLeq(R(0), MinGamma(ret.t)))
    /\ ret.op = "discrete" =>
           /\ ret.err \in {"ok", "ZeroDivisionError"}
           /\ ret.err = "ZeroDivisionError" <=>
                  \E k \in 1 .. Len(ret.collapses) :
                      /\ RateAt(ops_and_rates[ret.collapses[k][2]][2],
                                ret.collapses[k][1]) = R(0)
                      /\ RLeq(R(0), MinGamma(ret.collapses[k][1]))

\* A collapse list with an event of rate 0 where no rate is negative was
\* refused.
C20_Witness ==
    /\ ret.op = "discrete"
    /\ ret.err = "ZeroDivisionError"
    /\ Len(ret.collapses) >= 2

====
